---- MODULE Spec2Model ----
(***************************************************************************)
(* Model of photo_renamer.py: the metadata extractors and their dispatch,  *)
(* the date fallback, file discovery, the grouping/sequencing of the media *)
(* files of one directory, the rename loop of rename_media_in_directory    *)
(* and the per-directory batches of rename_media.                          *)
(*                                                                         *)
(* A path is a record [parent, stem, suffix] (pathlib's Path.parent,       *)
(* Path.stem and Path.suffix); the name on disk is stem \o suffix.  The    *)
(* file system maps each content identity to the path under which that     *)
(* content is stored, or to Gone once the content has been replaced by a   *)
(* rename.                                                                 *)
(***************************************************************************)
EXTENDS Integers, Sequences, FiniteSets, TLC

\* ---------------------------------------------------------------- bounds
TicksPerDay == 3
MaxPreNamed == 1
MaxNoMeta == 1
MaxFailures == 1
MaxStamp == 4
MaxTags == 2
MaxStreams == 2

\* ----------------------------------------------------------- vocabulary
\* an extractor's result is <<t>>, or None
None == <<>>
Gone == [parent |-> "", stem |-> "", suffix |-> ""]

\* the directories of the tree, in the order sorted() gives their paths
Root == "/r"
SubA == "/r/a"
SubB == "/r/a/b"
Dirs == <<Root, SubA, SubB>>

\* a path no entry exists at
Missing == "/r/none"

\* the path of a regular file
NotADir == "/r/notes.txt"

\* Path.parent of a directory of the tree
ParentDir(d) ==
    CASE d = SubA -> Root
      [] d = SubB -> SubA
      [] OTHER -> ""

\* d is top or lies below it
Under(d, top) ==
    \/ d = top
    \/ ParentDir(d) = top
    \/ ParentDir(ParentDir(d)) = top

\* Path.is_dir(): iterdir() and rglob() list directories only
is_dir(p) == \E k \in DOMAIN Dirs : Dirs[k] = p

\* a check that finds every path
directory_exists_always(p) == TRUE

\* directory.exists()
directory_exists(p) == is_dir(p) \/ p = NotADir

\* the contents stored in the directory
FileIds == {1, 2, 3}

\* strftime("%Y-%m-%d") of the days the model knows, in calendar order
DayStrs == <<"2023-01-15", "2023-01-16">>

Timestamps == 0..(Len(DayStrs) * TicksPerDay - 1)

strftime(t) == DayStrs[(t \div TicksPerDay) + 1]

DayIndex(s) == CHOOSE k \in 1..Len(DayStrs) : DayStrs[k] = s

video_extensions == {".mov", ".mp4", ".avi", ".mkv", ".m4v", ".3gp", ".wmv"}

media_extensions ==
    {".jpg", ".jpeg", ".png", ".tiff", ".tif", ".bmp", ".heic", ".heif", ".dng"}
        \cup video_extensions

\* str.lower() on the suffixes the model uses
lower(s) ==
    CASE s = ".JPG" -> ".jpg"
      [] s = ".MOV" -> ".mov"
      [] s = ".Png" -> ".png"
      [] s = ".DNG" -> ".dng"
      [] s = ".HEIC" -> ".heic"
      [] s = ".Mp4" -> ".mp4"
      [] s = ".TXT" -> ".txt"
      [] OTHER -> s

Suffixes == {".jpg", ".JPG", ".mov", ".MOV"}

\* a path is parent / (stem + suffix), and a name splits in one way only,
\* so two paths are equal exactly when their three parts are
NameOf(p) == <<p.parent, p.stem, p.suffix>>

\* ------------------------------------------------------------ variables
VARIABLES
    dir,            \* content identity -> [parent, stem, suffix] or Gone
    ftype,          \* content identity -> "file" | "dir" (what is_file() sees)
    directory,      \* the directory_path argument of the current call
    dir_args,       \* the directory_path argument of each call to be made
    rec_args,       \* the recursive argument of each call to be made
    args,           \* the arguments of rename_media
    contents,       \* what the extractors find in the file they are given
    got,            \* what get_date_taken did with that file
    meta,           \* content identity -> what get_date_taken returns
    stat,           \* content identity -> <<st_ctime, st_mtime, st_atime>>
    pc,             \* "idle" | "found" | "loop" | "end" | "done", "raised"
                    \* when the call ended with an exception, "main" before
                    \* rename_media starts
    run,            \* number of calls of rename_media_in_directory started
    dry_run,        \* the dry_run argument of the current call
    files_by_date,  \* date_str -> list of <<file_path, date_taken>>, each list
                    \* as file_list.sort() leaves it (the sort reads only the
                    \* captured timestamps, so it is done when the list is built)
    day,            \* position in sorted(files_by_date.items())
    i,              \* enumerate(file_list, 1) position inside the day
    total_renamed,  \* the counter of the current call
    result,         \* the tuple the last finished call returned
    log,            \* outcome of every entry the current or last call handled
    prev,           \* dry_run, log and result of the call before it
    failures,       \* filesystem rename failures so far
    dry_args,       \* the dry_run argument of each call the scenario makes
    media_files,    \* what find_media_files returned, until it is grouped
    dir0,           \* the directory as the current call found it
    best            \* what the last call of get_best_fallback_date returned

tree_vars == <<ftype, dir_args, args, rec_args>>

extract_vars == <<contents, got>>

vars == <<dir, meta, stat, pc, run, dry_run, files_by_date, day, i,
          total_renamed, result, log, prev, failures, dry_args, media_files,
          dir0, best, directory, tree_vars, extract_vars>>

\* ----------------------------------------------------------- filesystem
Present(d) == {f \in FileIds : d[f] # Gone}

\* Path.exists()
exists(d, p) == \E f \in Present(d) : NameOf(d[f]) = NameOf(p)

\* a check that never finds the target taken
target_taken_never(d, p) == FALSE

\* the check made on the directory as the call found it
target_taken_at_planning(d, p) == exists(dir0, p)

\* new_path.exists() in the rename loop
target_taken(d, p) == exists(d, p)

IdAt(d, p) == CHOOSE f \in Present(d) : NameOf(d[f]) = NameOf(p)

\* Path.rename(): the entry at src moves to dst, replacing what was there
rename(d, src, dst) ==
    LET f == IdAt(d, src)
    IN  [g \in FileIds |->
            IF g = f THEN dst
            ELSE IF d[g] # Gone /\ NameOf(d[g]) = NameOf(dst) THEN Gone
            ELSE d[g]]

\* ------------------------------------------------------------- fallback
Min2(a, b) == IF a <= b THEN a ELSE b

Min3(a, b, c) == Min2(a, Min2(b, c))

\* the earliest of the three, whatever their order
get_best_fallback_date_earliest(st) == Min3(st[1], st[2], st[3])

get_best_fallback_date(st) ==
    LET creation_time == st[1]
        modified_time == st[2]
        access_time   == st[3]
    IN  IF creation_time > modified_time
        THEN modified_time
        ELSE Min3(creation_time, modified_time, access_time)

\* ------------------------------------------------------------ discovery
Perms(S) ==
    {s \in [1..Cardinality(S) -> S] : \A a, b \in 1..Cardinality(S) : a # b => s[a] # s[b]}

\* the extension compared as spelled
IsMedia_case_sensitive(d, f) ==
    d[f] # Gone /\ ftype[f] = "file" /\ d[f].suffix \in media_extensions

\* file_path.is_file() and file_path.suffix.lower() in media_extensions
IsMedia(d, f) ==
    d[f] # Gone /\ ftype[f] = "file" /\ lower(d[f].suffix) \in media_extensions

\* the whole subtree whatever the mode
Listed_subtree(d, top, recursive) ==
    {f \in FileIds : d[f] # Gone /\ Under(d[f].parent, top)}

\* directory.iterdir() yields the direct children, directory.rglob('*') the
\* whole subtree
Listed(d, top, recursive) ==
    {f \in FileIds :
        /\ d[f] # Gone
        /\ IF recursive THEN Under(d[f].parent, top) ELSE d[f].parent = top}

\* find_media_files(directory, recursive): the listing order is the file
\* system's, i.e. any order
find_media_files(d, top, recursive) ==
    Perms({f \in Listed(d, top, recursive) : IsMedia(d, f)})

\* ------------------------------------------------------------- grouping
get_date_taken(f) == meta[f]

\* the file attributes used whatever the extractor found
resolve_fallback_always(m, st) == get_best_fallback_date(st)

resolve(m, st) == IF m = None THEN get_best_fallback_date(st) ELSE m[1]

date_taken_of(f) == resolve(get_date_taken(f), stat[f])

RECURSIVE group(_, _, _)
group(d, listing, acc) ==
    IF listing = <<>> THEN acc
    ELSE LET f == Head(listing)
             date_taken == date_taken_of(f)
             date_str == strftime(date_taken)
             old == IF date_str \in DOMAIN acc THEN acc[date_str] ELSE <<>>
             new == [k \in (DOMAIN acc) \cup {date_str} |->
                        IF k = date_str THEN Append(old, <<d[f], date_taken>>)
                        ELSE acc[k]]
         IN  group(d, Tail(listing), new)

EmptyGroups == [k \in {} |-> <<>>]

\* a sort that puts an element before the earlier ones of equal key
RECURSIVE sort_by_time_unstable(_)
sort_by_time_unstable(l) ==
    IF l = <<>> THEN <<>>
    ELSE LET n == Len(l)
             rest == sort_by_time_unstable(SubSeq(l, 1, n - 1))
             x == l[n]
             k == Cardinality({j \in 1..Len(rest) : rest[j][2] < x[2]})
         IN  SubSeq(rest, 1, k) \o <<x>> \o SubSeq(rest, k + 1, Len(rest))

\* list.sort(key=lambda x: x[1]): stable, ascending
RECURSIVE sort_by_time(_)
sort_by_time(l) ==
    IF l = <<>> THEN <<>>
    ELSE LET n == Len(l)
             rest == sort_by_time(SubSeq(l, 1, n - 1))
             x == l[n]
             k == Cardinality({j \in 1..Len(rest) : rest[j][2] <= x[2]})
         IN  SubSeq(rest, 1, k) \o <<x>> \o SubSeq(rest, k + 1, Len(rest))

\* the day lists left in listing order
sort_groups_unsorted(g) == g

sort_groups(g) == [k \in DOMAIN g |-> sort_by_time(g[k])]

\* the date strings in descending order
RECURSIVE sorted_keys_descending(_)
sorted_keys_descending(S) ==
    IF S = {} THEN <<>>
    ELSE LET m == CHOOSE a \in S : \A b \in S : DayIndex(a) >= DayIndex(b)
         IN  <<m>> \o sorted_keys_descending(S \ {m})

\* sorted(files_by_date.items()): the date strings in ascending order
RECURSIVE sorted_keys(_)
sorted_keys(S) ==
    IF S = {} THEN <<>>
    ELSE LET m == CHOOSE a \in S : \A b \in S : DayIndex(a) <= DayIndex(b)
         IN  <<m>> \o sorted_keys(S \ {m})

\* ---------------------------------------------------------- target name
\* numbering from 0, as enumerate() without its start argument
new_name_from_zero(date_str, n, file_path) ==
    LET file_ext == lower(file_path.suffix)
    IN  IF file_ext \in video_extensions
        THEN [parent |-> file_path.parent,
              stem |-> date_str \o " - Phone Videos (" \o ToString(n - 1) \o ")",
              suffix |-> file_ext]
        ELSE [parent |-> file_path.parent,
              stem |-> date_str \o " - Phone Photos (" \o ToString(n - 1) \o ")",
              suffix |-> file_ext]

\* a fixed extension instead of the file's own
new_name_jpg(date_str, n, file_path) ==
    LET file_ext == lower(file_path.suffix)
    IN  IF file_ext \in video_extensions
        THEN [parent |-> file_path.parent,
              stem |-> date_str \o " - Phone Videos (" \o ToString(n) \o ")",
              suffix |-> ".jpg"]
        ELSE [parent |-> file_path.parent,
              stem |-> date_str \o " - Phone Photos (" \o ToString(n) \o ")",
              suffix |-> ".jpg"]

\* the kind decided on the extension as spelled, not lower-cased
new_name_raw_kind(date_str, n, file_path) ==
    LET file_ext == lower(file_path.suffix)
    IN  IF file_path.suffix \in video_extensions
        THEN [parent |-> file_path.parent,
              stem |-> date_str \o " - Phone Videos (" \o ToString(n) \o ")",
              suffix |-> file_ext]
        ELSE [parent |-> file_path.parent,
              stem |-> date_str \o " - Phone Photos (" \o ToString(n) \o ")",
              suffix |-> file_ext]

\* a name without the day
new_name_no_day(date_str, n, file_path) ==
    LET file_ext == lower(file_path.suffix)
    IN  IF file_ext \in video_extensions
        THEN [parent |-> file_path.parent,
              stem |-> "Phone Videos (" \o ToString(n) \o ")",
              suffix |-> file_ext]
        ELSE [parent |-> file_path.parent,
              stem |-> "Phone Photos (" \o ToString(n) \o ")",
              suffix |-> file_ext]

new_name(date_str, n, file_path) ==
    LET file_ext == lower(file_path.suffix)
    IN  IF file_ext \in video_extensions
        THEN [parent |-> file_path.parent,
              stem |-> date_str \o " - Phone Videos (" \o ToString(n) \o ")",
              suffix |-> file_ext]
        ELSE [parent |-> file_path.parent,
              stem |-> date_str \o " - Phone Photos (" \o ToString(n) \o ")",
              suffix |-> file_ext]

\* a comparison that never finds the file already named
same_name_never(file_path, name) == FALSE

\* file_path.name == new_name
same_name(file_path, name) == NameOf(file_path) = NameOf(name)

\* ------------------------------------------------- the loop's position
keys == sorted_keys(DOMAIN files_by_date)

cur_date_str == keys[day]

cur_file_list == files_by_date[cur_date_str]

cur_file_path == cur_file_list[i][1]

cur_new_name == new_name(cur_date_str, i, cur_file_path)

IdOrZero(d, p) == IF exists(d, p) THEN IdAt(d, p) ELSE 0

Entry(res) ==
    [id |-> IdOrZero(dir, cur_file_path), src |-> cur_file_path,
     target |-> cur_new_name, date_str |-> cur_date_str, n |-> i, res |-> res]

\* the loops left after the first day
Advance_first_day_only ==
    IF i < Len(cur_file_list)
    THEN /\ i' = i + 1
         /\ UNCHANGED <<day, pc>>
    ELSE /\ pc' = "end"
         /\ UNCHANGED <<day, i>>

\* next iteration of the two nested for loops, or fall out of them
Advance ==
    IF i < Len(cur_file_list)
    THEN /\ i' = i + 1
         /\ UNCHANGED <<day, pc>>
    ELSE IF day < Len(keys)
    THEN /\ day' = day + 1
         /\ i' = 1
         /\ UNCHANGED pc
    ELSE /\ pc' = "end"
         /\ UNCHANGED <<day, i>>

\* ---------------------------------------------------------------- calls
\* the recursive argument handed on to find_media_files
Call_recursive ==
    /\ pc \in {"idle", "done"}
    /\ run < Len(dry_args)
    /\ run' = run + 1
    /\ dry_run' = dry_args[run + 1]
    /\ directory' = dir_args[run + 1]
    /\ dir0' = dir
    /\ total_renamed' = 0
    /\ log' = <<>>
    /\ prev' = [dry |-> dry_run, log |-> log, result |-> result]
    /\ day' = 1
    /\ i' = 1
    /\ files_by_date' = EmptyGroups
    /\ IF ~directory_exists(dir_args[run + 1])
       THEN media_files' = <<>> /\ result' = <<0, 0>> /\ pc' = "done"
       ELSE IF ~is_dir(dir_args[run + 1])
       THEN media_files' = <<>> /\ pc' = "raised" /\ UNCHANGED result
       ELSE \E listing \in find_media_files(dir, dir_args[run + 1], rec_args[run + 1]) :
               /\ media_files' = listing
               /\ IF listing = <<>>
                  THEN result' = <<0, 0>> /\ pc' = "done"
                  ELSE pc' = "found" /\ UNCHANGED result
    /\ UNCHANGED <<dir, meta, stat, failures, dry_args, best, tree_vars,
                   extract_vars>>

\* rename_media_in_directory is called: a missing directory ends the call,
\* otherwise the media files are listed, without recursion whatever the
\* recursive argument (rec_args[run + 1]) is
Call ==
    /\ pc \in {"idle", "done"}
    /\ run < Len(dry_args)
    /\ run' = run + 1
    /\ dry_run' = dry_args[run + 1]
    /\ directory' = dir_args[run + 1]
    /\ dir0' = dir
    /\ total_renamed' = 0
    /\ log' = <<>>
    /\ prev' = [dry |-> dry_run, log |-> log, result |-> result]
    /\ day' = 1
    /\ i' = 1
    /\ files_by_date' = EmptyGroups
    /\ IF ~directory_exists(dir_args[run + 1])
       THEN media_files' = <<>> /\ result' = <<0, 0>> /\ pc' = "done"
       ELSE IF ~is_dir(dir_args[run + 1])
       THEN media_files' = <<>> /\ pc' = "raised" /\ UNCHANGED result
       ELSE \E listing \in find_media_files(dir, dir_args[run + 1], FALSE) :
               /\ media_files' = listing
               /\ IF listing = <<>>
                  THEN result' = <<0, 0>> /\ pc' = "done"
                  ELSE pc' = "found" /\ UNCHANGED result
    /\ UNCHANGED <<dir, meta, stat, failures, dry_args, best, tree_vars,
                   extract_vars>>

\* the files are keyed by the day of their date and each day's list sorted
Group ==
    /\ pc = "found"
    /\ files_by_date' = sort_groups(group(dir, media_files, EmptyGroups))
    /\ media_files' = <<>>
    /\ pc' = "loop"
    /\ UNCHANGED <<dir, meta, stat, run, dry_run, day, i, total_renamed, result,
                   log, prev, failures, dry_args, dir0, best, directory, tree_vars, extract_vars>>

\* the already-named file counted as renamed
AlreadyNamed_counted ==
    /\ pc = "loop"
    /\ same_name(cur_file_path, cur_new_name)
    /\ log' = Append(log, Entry("same"))
    /\ total_renamed' = total_renamed + 1
    /\ Advance
    /\ UNCHANGED <<dir, meta, stat, run, dry_run, files_by_date,
                   result, prev, failures, dry_args, media_files,
                   dir0, best, directory, tree_vars, extract_vars>>

\* file_path.name == new_name: continue
AlreadyNamed ==
    /\ pc = "loop"
    /\ same_name(cur_file_path, cur_new_name)
    /\ log' = Append(log, Entry("same"))
    /\ Advance
    /\ UNCHANGED <<dir, meta, stat, run, dry_run, files_by_date, total_renamed,
                   result, prev, failures, dry_args, media_files,
                   dir0, best, directory, tree_vars, extract_vars>>

\* new_path.exists(): continue
SkipExisting ==
    /\ pc = "loop"
    /\ ~same_name(cur_file_path, cur_new_name)
    /\ target_taken(dir, cur_new_name)
    /\ log' = Append(log, Entry("skipped"))
    /\ Advance
    /\ UNCHANGED <<dir, meta, stat, run, dry_run, files_by_date, total_renamed,
                   result, prev, failures, dry_args, media_files,
                   dir0, best, directory, tree_vars, extract_vars>>

DryRun ==
    /\ pc = "loop"
    /\ ~same_name(cur_file_path, cur_new_name)
    /\ ~target_taken(dir, cur_new_name)
    /\ dry_run
    /\ log' = Append(log, Entry("dry"))
    /\ Advance
    /\ UNCHANGED <<dir, meta, stat, run, dry_run, files_by_date, total_renamed,
                   result, prev, failures, dry_args, media_files,
                   dir0, best, directory, tree_vars, extract_vars>>

\* the rename done without looking at dry_run
Rename_in_dry_run ==
    /\ pc = "loop"
    /\ ~same_name(cur_file_path, cur_new_name)
    /\ ~target_taken(dir, cur_new_name)
    /\ exists(dir, cur_file_path)
    /\ dir' = rename(dir, cur_file_path, cur_new_name)
    /\ total_renamed' = total_renamed + 1
    /\ log' = Append(log, Entry("renamed"))
    /\ Advance
    /\ UNCHANGED <<meta, stat, run, dry_run, files_by_date, result, prev,
                   failures, dry_args, media_files,
                   dir0, best, directory, tree_vars, extract_vars>>

\* a rename that is not counted
Rename_uncounted ==
    /\ pc = "loop"
    /\ ~same_name(cur_file_path, cur_new_name)
    /\ ~target_taken(dir, cur_new_name)
    /\ ~dry_run
    /\ exists(dir, cur_file_path)
    /\ dir' = rename(dir, cur_file_path, cur_new_name)
    /\ log' = Append(log, Entry("renamed"))
    /\ Advance
    /\ UNCHANGED <<meta, stat, run, dry_run, files_by_date, total_renamed,
                   result, prev, failures, dry_args, media_files,
                   dir0, best, directory, tree_vars, extract_vars>>

\* file_path.rename(new_path) succeeds
Rename ==
    /\ pc = "loop"
    /\ ~same_name(cur_file_path, cur_new_name)
    /\ ~target_taken(dir, cur_new_name)
    /\ ~dry_run
    /\ exists(dir, cur_file_path)
    /\ dir' = rename(dir, cur_file_path, cur_new_name)
    /\ total_renamed' = total_renamed + 1
    /\ log' = Append(log, Entry("renamed"))
    /\ Advance
    /\ UNCHANGED <<meta, stat, run, dry_run, files_by_date, result, prev,
                   failures, dry_args, media_files,
                   dir0, best, directory, tree_vars, extract_vars>>

\* a failed rename that ends the loop
RenameError_fatal ==
    /\ pc = "loop"
    /\ ~same_name(cur_file_path, cur_new_name)
    /\ ~target_taken(dir, cur_new_name)
    /\ ~dry_run
    /\ \/ /\ failures < MaxFailures
          /\ failures' = failures + 1
       \/ /\ ~exists(dir, cur_file_path)
          /\ UNCHANGED failures
    /\ log' = Append(log, Entry("error"))
    /\ pc' = "end"
    /\ UNCHANGED <<dir, meta, stat, run, dry_run, files_by_date, total_renamed,
                   result, prev, dry_args, media_files, day, i,
                   dir0, best, directory, tree_vars, extract_vars>>

\* file_path.rename(new_path) raises: the except branch
RenameError ==
    /\ pc = "loop"
    /\ ~same_name(cur_file_path, cur_new_name)
    /\ ~target_taken(dir, cur_new_name)
    /\ ~dry_run
    /\ \/ /\ failures < MaxFailures
          /\ failures' = failures + 1
       \/ /\ ~exists(dir, cur_file_path)
          /\ UNCHANGED failures
    /\ log' = Append(log, Entry("error"))
    /\ Advance
    /\ UNCHANGED <<dir, meta, stat, run, dry_run, files_by_date, total_renamed,
                   result, prev, dry_args, media_files,
                   dir0, best, directory, tree_vars, extract_vars>>

RECURSIVE SumLen(_, _)
SumLen(g, S) ==
    IF S = {} THEN 0
    ELSE LET k == CHOOSE x \in S : TRUE
         IN  Len(g[k]) + SumLen(g, S \ {k})

\* the number of renamed files returned as the total
Return_renamed_total ==
    /\ pc = "end"
    /\ result' = <<total_renamed, total_renamed>>
    /\ pc' = "done"
    /\ UNCHANGED <<dir, meta, stat, run, dry_run, files_by_date, day, i,
                   total_renamed, log, prev, failures, dry_args, media_files,
                   dir0, best, directory, tree_vars, extract_vars>>

\* total_files = sum(...); return total_files, total_renamed
Return ==
    /\ pc = "end"
    /\ LET total_files == SumLen(files_by_date, DOMAIN files_by_date)
       IN  result' = <<total_files, total_renamed>>
    /\ pc' = "done"
    /\ UNCHANGED <<dir, meta, stat, run, dry_run, files_by_date, day, i,
                   total_renamed, log, prev, failures, dry_args, media_files,
                   dir0, best, directory, tree_vars, extract_vars>>

\* ----------------------------------------------------------- extractors
\* what a call does: it returns a value (None, or <<t>> with the UTC offset
\* the datetime carries, "" for a naive one), or it raises
Ret(v, tz) == [st |-> "return", val |-> v, exc |-> "", tz |-> tz]

Raise(e) == [st |-> "raise", val |-> None, exc |-> e, tz |-> ""]

ReturnNone == Ret(None, "")

\* a tag value: a string spelling the time t with the given separators,
\* fraction and zone suffix, a string spelling no date (sep = "T" when it
\* holds the letter T), or a value that is not a string
DateStr(t, datesep, sep, frac, tz) ==
    [kind |-> "date", t |-> t, datesep |-> datesep, sep |-> sep, frac |-> frac,
     tz |-> tz]

Text == [kind |-> "text", t |-> 0, datesep |-> "", sep |-> "", frac |-> FALSE,
         tz |-> ""]

TextT == [kind |-> "text", t |-> 0, datesep |-> "", sep |-> "T", frac |-> FALSE,
          tz |-> ""]

NonStr == [kind |-> "nonstr", t |-> 0, datesep |-> "", sep |-> "", frac |-> FALSE,
           tz |-> ""]

\* str(value)
str(v) == IF v.kind = "nonstr" THEN Text ELSE v

\* datetime.strptime(value, "%Y<datesep>%m<datesep>%d %H:%M:%S")
strptime(v, datesep) ==
    IF v.kind = "nonstr" THEN Raise("TypeError")
    ELSE IF /\ v.kind = "date" /\ v.datesep = datesep /\ v.sep = " "
            /\ ~v.frac /\ v.tz = ""
    THEN Ret(<<v.t>>, "")
    ELSE Raise("ValueError")

\* datetime.fromisoformat(date_str)
fromisoformat(v) ==
    IF /\ v.kind = "date" /\ v.datesep = "-" /\ v.sep = "T" /\ ~v.frac
       /\ v.tz # "Z"
    THEN Ret(<<v.t>>, v.tz)
    ELSE Raise("ValueError")

\* 'T' in date_str
contains_T(v) == v.sep = "T"

\* date_str.replace('Z', '+00:00')
replace_Z(v) == IF v.tz = "Z" THEN [v EXCEPT !.tz = "+00:00"] ELSE v

\* date_str.split('.')[0]
before_dot(v) == [v EXCEPT !.frac = FALSE, !.tz = ""]

\* date_str.replace('+00:00', '')
strip_utc(v) == IF v.tz = "+00:00" THEN [v EXCEPT !.tz = ""] ELSE v

\* except (ValueError, TypeError): continue
Caught(r, classes) == r.st = "raise" /\ r.exc \in classes

\* the ISO branch of both tag loops of get_video_date_taken
parse_iso(v) ==
    LET date_str == replace_Z(v)
    IN  IF date_str.frac
        THEN fromisoformat(before_dot(date_str))
        ELSE fromisoformat(strip_utc(date_str))

\* the value of one container-level tag: a result, or ReturnNone where the
\* loop goes on to the next field
parse_format_tag(v) ==
    LET r == IF v.kind = "nonstr" THEN Raise("TypeError")
             ELSE IF contains_T(v) THEN parse_iso(v)
             ELSE LET a == strptime(v, "-")
                      b == strptime(v, ":")
                  IN  IF ~Caught(a, {"ValueError"}) THEN a
                      ELSE IF ~Caught(b, {"ValueError"}) THEN b
                      ELSE ReturnNone
    IN  IF Caught(r, {"ValueError", "TypeError"}) THEN ReturnNone ELSE r

\* the value of one stream-level tag
parse_stream_tag(v) ==
    LET r == IF v.kind = "nonstr" THEN Raise("TypeError")
             ELSE IF contains_T(v) THEN parse_iso(v)
             ELSE ReturnNone
    IN  IF Caught(r, {"ValueError", "TypeError"}) THEN ReturnNone ELSE r

\* the general date tag tried before creation_time
date_fields_date_first == <<"date", "creation_time", "creation_date",
                            "com.apple.quicktime.creationdate">>

date_fields == <<"creation_time", "date", "creation_date",
                 "com.apple.quicktime.creationdate">>

stream_fields == <<"creation_time", "date">>

\* for field in fields: if field in tags: the first value that parses
RECURSIVE first_format_tag(_, _)
first_format_tag(fields, tags) ==
    IF fields = <<>> THEN ReturnNone
    ELSE LET r == IF Head(fields) \in DOMAIN tags
                  THEN parse_format_tag(tags[Head(fields)])
                  ELSE ReturnNone
         IN  IF r # ReturnNone THEN r ELSE first_format_tag(Tail(fields), tags)

RECURSIVE first_stream_tag(_, _)
first_stream_tag(fields, tags) ==
    IF fields = <<>> THEN ReturnNone
    ELSE LET r == IF Head(fields) \in DOMAIN tags
                  THEN parse_stream_tag(tags[Head(fields)])
                  ELSE ReturnNone
         IN  IF r # ReturnNone THEN r ELSE first_stream_tag(Tail(fields), tags)

\* for stream in metadata['streams']
RECURSIVE first_stream(_)
first_stream(streams) ==
    IF streams = <<>> THEN ReturnNone
    ELSE LET r == first_stream_tag(stream_fields, Head(streams))
         IN  IF r # ReturnNone THEN r ELSE first_stream(Tail(streams))

\* the try block of get_video_date_taken, followed by the final return None
video_body(s) ==
    CASE s.probe = "timeout" -> Raise("TimeoutExpired")
      [] s.probe = "missing" -> Raise("FileNotFoundError")
      [] s.probe = "nonzero" -> ReturnNone
      [] s.probe = "badjson" -> Raise("JSONDecodeError")
      [] s.probe = "scalar"  -> Raise("TypeError")
      [] OTHER ->
            LET r == first_format_tag(date_fields, s.fmt)
            IN  IF r # ReturnNone THEN r ELSE first_stream(s.streams)

\* except Exception: ...; return None
catch_Exception(r) == IF r.st = "raise" THEN ReturnNone ELSE r

\* the body of get_video_date_taken without its except clauses
get_video_date_taken_uncaught(s) == video_body(s)

get_video_date_taken(s) == catch_Exception(video_body(s))

exif_date_tags == {"DateTime", "DateTimeOriginal", "DateTimeDigitized"}

\* a scan that gives up at the first date tag, whether its value parses or not
RECURSIVE scan_exif_first_candidate(_)
scan_exif_first_candidate(tags) ==
    IF tags = <<>> THEN ReturnNone
    ELSE LET tag == Head(tags)[1]
             value == Head(tags)[2]
         IN  IF tag \in exif_date_tags
             THEN LET r == strptime(value, ":")
                  IN  IF Caught(r, {"ValueError", "TypeError"}) THEN ReturnNone ELSE r
             ELSE scan_exif_first_candidate(Tail(tags))

\* for tag_id in exifdata: the first date tag whose value parses
RECURSIVE scan_exif(_)
scan_exif(tags) ==
    IF tags = <<>> THEN ReturnNone
    ELSE LET tag == Head(tags)[1]
             value == Head(tags)[2]
             r == IF tag \in exif_date_tags THEN strptime(value, ":")
                  ELSE ReturnNone
         IN  IF r.st = "return" /\ r # ReturnNone THEN r
             ELSE IF r.st = "raise" /\ ~Caught(r, {"ValueError", "TypeError"}) THEN r
             ELSE scan_exif(Tail(tags))

\* with Image.open(image_path) as image: the main EXIF data, then the EXIF IFD
image_body(s) ==
    IF s.open = "error" THEN Raise("OSError")
    ELSE LET r == scan_exif(s.exif)
         IN  IF r # ReturnNone THEN r
             ELSE IF s.ifd_state = "ok" THEN scan_exif(s.ifd)
             ELSE ReturnNone

get_image_date_taken(s) == catch_Exception(image_body(s))

get_heic_date_taken(s) ==
    catch_Exception(IF s.heif = "missing" THEN ReturnNone ELSE image_body(s))

\* the general date tag tried first
dng_date_tags_image_first == <<"Image DateTime", "EXIF DateTimeOriginal",
                               "EXIF DateTimeDigitized">>

dng_date_tags == <<"EXIF DateTimeOriginal", "EXIF DateTimeDigitized",
                   "Image DateTime">>

\* for tag_name in date_tags: if tag_name in tags: the first that parses
RECURSIVE first_dng_tag(_, _)
first_dng_tag(names, tags) ==
    IF names = <<>> THEN ReturnNone
    ELSE LET r == IF Head(names) \in DOMAIN tags
                  THEN strptime(str(tags[Head(names)]), ":")
                  ELSE ReturnNone
         IN  IF r.st = "return" /\ r # ReturnNone THEN r
             ELSE IF r.st = "raise" /\ ~Caught(r, {"ValueError", "TypeError"}) THEN r
             ELSE first_dng_tag(Tail(names), tags)

dng_body(s) ==
    IF s.exifread = "missing" THEN ReturnNone
    ELSE IF s.open = "error" THEN Raise("OSError")
    ELSE first_dng_tag(dng_date_tags, s.dng_tags)

get_dng_date_taken(s) == catch_Exception(dng_body(s))

\* .dng sent to the image extractor
get_date_taken_dng_as_image(file_path, s) ==
    LET file_ext == lower(file_path.suffix)
    IN  IF file_ext \in {".jpg", ".jpeg", ".png", ".tiff", ".tif", ".bmp", ".dng"}
        THEN [called |-> <<"get_image_date_taken">>, res |-> get_image_date_taken(s)]
        ELSE IF file_ext \in {".heic", ".heif"}
        THEN [called |-> <<"get_heic_date_taken">>, res |-> get_heic_date_taken(s)]
        ELSE IF file_ext \in {".mov", ".mp4", ".avi", ".mkv", ".m4v", ".3gp", ".wmv"}
        THEN [called |-> <<"get_video_date_taken">>, res |-> get_video_date_taken(s)]
        ELSE [called |-> <<>>, res |-> ReturnNone]

\* get_date_taken(file_path): the extractor chosen and what it returned
get_date_taken_dispatch(file_path, s) ==
    LET file_ext == lower(file_path.suffix)
    IN  IF file_ext \in {".jpg", ".jpeg", ".png", ".tiff", ".tif", ".bmp"}
        THEN [called |-> <<"get_image_date_taken">>, res |-> get_image_date_taken(s)]
        ELSE IF file_ext = ".dng"
        THEN [called |-> <<"get_dng_date_taken">>, res |-> get_dng_date_taken(s)]
        ELSE IF file_ext \in {".heic", ".heif"}
        THEN [called |-> <<"get_heic_date_taken">>, res |-> get_heic_date_taken(s)]
        ELSE IF file_ext \in {".mov", ".mp4", ".avi", ".mkv", ".m4v", ".3gp", ".wmv"}
        THEN [called |-> <<"get_video_date_taken">>, res |-> get_video_date_taken(s)]
        ELSE [called |-> <<>>, res |-> ReturnNone]

NoTags == [k \in {} |-> Text]

\* a file nothing can be read from
NoSrc ==
    [open |-> "ok", exif |-> <<>>, ifd_state |-> "absent", ifd |-> <<>>,
     heif |-> "ok", exifread |-> "ok", dng_tags |-> NoTags,
     probe |-> "ok", fmt |-> NoTags, streams |-> <<>>]

NoCall == [called |-> <<>>, res |-> ReturnNone]

\* ----------------------------------------------------------- initial state
GenericStem(f) == "IMG_00" \o ToString(f)

\* names a directory may already hold in the tool's own format
PreNames ==
    {new_name(DayStrs[k], n, [parent |-> Root, stem |-> "", suffix |-> s]) :
        k \in 1..Len(DayStrs), n \in FileIds, s \in Suffixes}

InitNames(f) ==
    {[parent |-> Root, stem |-> GenericStem(f), suffix |-> s] : s \in Suffixes}
        \cup PreNames

NoPrev == [dry |-> FALSE, log |-> <<>>, result |-> <<0, 0>>]

\* rename_media is not part of the scenario
NoArgs == [root |-> Root, dry |-> FALSE, recursive |-> FALSE]

InitCommon ==
    /\ dir \in {d \in [FileIds -> UNION {InitNames(f) : f \in FileIds}] :
                  /\ \A f \in FileIds : d[f] \in InitNames(f)
                  /\ \A f, g \in FileIds : f # g => NameOf(d[f]) # NameOf(d[g])}
    /\ pc = "idle"
    /\ run = 0
    /\ dry_run = FALSE
    /\ files_by_date = EmptyGroups
    /\ day = 1
    /\ i = 1
    /\ total_renamed = 0
    /\ result = <<0, 0>>
    /\ log = <<>>
    /\ prev = NoPrev
    /\ failures = 0
    /\ media_files = <<>>
    /\ dir0 = dir
    /\ best = None
    /\ ftype = [f \in FileIds |-> "file"]
    /\ directory = Root
    /\ args = NoArgs
    /\ contents = NoSrc
    /\ got = NoCall

LastStamp == Len(DayStrs) * TicksPerDay - 1

\* file attributes of the files that carry no metadata date
StatSamples == {<<c, m, c>> : c \in {0, LastStamp}, m \in {0, LastStamp}}

PreNamed(d) == {f \in FileIds : d[f] \in PreNames}

\* content identities are numbered in capture order; the listing order that
\* Call draws is independent of it
CaptureOrder == \A f, g \in FileIds : f < g => date_taken_of(f) <= date_taken_of(g)

AllMeta ==
    /\ meta \in [FileIds -> {<<t>> : t \in Timestamps}]
    /\ stat = [f \in FileIds |-> <<0, 0, 0>>]
    /\ CaptureOrder

SomeNoMeta ==
    /\ meta \in [FileIds -> {None} \cup {<<t>> : t \in Timestamps}]
    /\ Cardinality({f \in FileIds : meta[f] = None}) <= MaxNoMeta
    /\ stat \in [FileIds -> StatSamples]
    /\ \A f \in FileIds : meta[f] # None => stat[f] = <<0, 0, 0>>
    /\ CaptureOrder

AllJpg == \A f \in FileIds : dir[f].suffix = ".jpg"

\* camera names with any mix of extensions
InitMixed == PreNamed(dir) = {} /\ AllMeta

\* camera names, some files without a metadata date
InitNoMeta == PreNamed(dir) = {} /\ AllJpg /\ SomeNoMeta

\* some names of the tool's own format are already taken
InitOccupied == Cardinality(PreNamed(dir)) <= MaxPreNamed /\ AllJpg /\ AllMeta

\* what an entry can be that the call must leave alone: a file that is no
\* media file, a media file one level down, a directory with a media name
Bystanders(f) ==
    {[path |-> [parent |-> Root, stem |-> GenericStem(f), suffix |-> ".txt"],
      ftype |-> "file"],
     [path |-> [parent |-> SubA, stem |-> GenericStem(f), suffix |-> ".jpg"],
      ftype |-> "file"],
     [path |-> [parent |-> Root, stem |-> GenericStem(f), suffix |-> ".jpg"],
      ftype |-> "dir"]}

\* the call is given a path that does not exist, a path that is no
\* directory, or a directory without a media file among its children
InitEdge ==
    /\ \/ /\ dir_args \in {<<Missing>>, <<NotADir>>}
          /\ dir = [f \in FileIds |->
                      [parent |-> Root, stem |-> GenericStem(f), suffix |-> ".jpg"]]
          /\ ftype = [f \in FileIds |-> "file"]
       \/ /\ dir_args = <<Root>>
          /\ \E e \in [FileIds -> UNION {Bystanders(f) : f \in FileIds}] :
                /\ \A f \in FileIds : e[f] \in Bystanders(f)
                /\ dir = [f \in FileIds |-> e[f].path]
                /\ ftype = [f \in FileIds |-> e[f].ftype]
    /\ dry_args \in {<<TRUE>>, <<FALSE>>}
    /\ rec_args \in {<<TRUE>>, <<FALSE>>}
    /\ meta = [f \in FileIds |-> <<0>>]
    /\ stat = [f \in FileIds |-> <<0, 0, 0>>]
    /\ pc = "idle"
    /\ run = 0
    /\ dry_run = FALSE
    /\ files_by_date = EmptyGroups
    /\ day = 1
    /\ i = 1
    /\ total_renamed = 0
    /\ result = <<0, 0>>
    /\ log = <<>>
    /\ prev = NoPrev
    /\ failures = 0
    /\ media_files = <<>>
    /\ dir0 = dir
    /\ best = None
    /\ directory = Root
    /\ args = NoArgs
    /\ contents = NoSrc
    /\ got = NoCall

\* a media file directly in the directory
DirectMedia(f) ==
    [path |-> [parent |-> Root, stem |-> GenericStem(f), suffix |-> ".jpg"],
     ftype |-> "file"]

\* the directory holds media files next to entries the call must leave
\* alone, and the call is given either value of recursive
InitNested ==
    /\ \E e \in [FileIds -> UNION {Bystanders(f) \cup {DirectMedia(f)} : f \in FileIds}] :
          /\ \A f \in FileIds : e[f] \in Bystanders(f) \cup {DirectMedia(f)}
          /\ \E f \in FileIds : e[f] = DirectMedia(f)
          /\ dir = [f \in FileIds |-> e[f].path]
          /\ ftype = [f \in FileIds |-> e[f].ftype]
    /\ dir_args = <<Root>>
    /\ dry_args \in {<<TRUE>>, <<FALSE>>}
    /\ rec_args \in {<<TRUE>>, <<FALSE>>}
    /\ meta = [f \in FileIds |-> <<f - 1>>]
    /\ stat = [f \in FileIds |-> <<0, 0, 0>>]
    /\ pc = "idle"
    /\ run = 0
    /\ dry_run = FALSE
    /\ files_by_date = EmptyGroups
    /\ day = 1
    /\ i = 1
    /\ total_renamed = 0
    /\ result = <<0, 0>>
    /\ log = <<>>
    /\ prev = NoPrev
    /\ failures = 0
    /\ media_files = <<>>
    /\ dir0 = dir
    /\ best = None
    /\ directory = Root
    /\ args = NoArgs
    /\ contents = NoSrc
    /\ got = NoCall

\* one call, dry or not
Init ==
    \/ /\ InitCommon
       /\ InitMixed \/ InitNoMeta \/ InitOccupied
       /\ dry_args \in {<<TRUE>>, <<FALSE>>}
       /\ dir_args = <<Root>>
       /\ rec_args = <<FALSE>>
    \/ InitEdge
    \/ InitNested

\* two calls in a row on the same directory
InitTwice ==
    /\ InitCommon
    /\ \/ InitOccupied
       \/ InitMixed /\ \A f \in FileIds : dir[f].suffix \in {".jpg", ".mov"}
    /\ dry_args \in {<<FALSE, FALSE>>, <<TRUE, FALSE>>}
    /\ dir_args = <<Root, Root>>
    /\ rec_args = <<FALSE, FALSE>>

Next ==
    \/ Call
    \/ Group
    \/ AlreadyNamed
    \/ SkipExisting
    \/ DryRun
    \/ Rename
    \/ RenameError
    \/ Return

Spec == Init /\ [][Next]_vars

SpecTwice == InitTwice /\ [][Next]_vars

\* no step is left: the last call has returned or raised
Terminated ==
    \/ pc = "raised"
    \/ pc \in {"idle", "done"} /\ run >= Len(dry_args)

\* the interpreter goes on to the next statement as long as there is one:
\* WF_vars(Next), with ENABLED <<Next>>_vars written out as ~Terminated
Fairness == []<>Terminated \/ []<><<Next>>_vars

SpecLive == Spec /\ Fairness

\* ------------------------------------------------- rename_media on a tree
\* sorted(directories_with_media)
sorted_dirs(S) == SelectSeq(Dirs, LAMBDA d : d \in S)

\* rename_media: the directories to process are found; the calls of
\* rename_media_in_directory follow, one for each (the totals it adds up are
\* only printed)
RenameMedia ==
    /\ pc = "main"
    /\ pc' = "idle"
    /\ IF ~directory_exists(args.root)
       THEN /\ dir_args' = <<>> /\ dry_args' = <<>> /\ media_files' = <<>>
            /\ rec_args' = <<>>
       ELSE IF args.recursive
       THEN \E listing \in find_media_files(dir, args.root, TRUE) :
               LET directories_with_media ==
                       {dir[listing[k]].parent : k \in DOMAIN listing}
               IN  /\ media_files' = listing
                   /\ dir_args' = sorted_dirs(directories_with_media)
                   /\ dry_args' = [k \in 1..Cardinality(directories_with_media)
                                      |-> args.dry]
                   /\ rec_args' = [k \in 1..Cardinality(directories_with_media)
                                      |-> FALSE]
       ELSE /\ dir_args' = <<args.root>>
            /\ dry_args' = <<args.dry>>
            /\ rec_args' = <<FALSE>>
            /\ media_files' = <<>>
    /\ UNCHANGED <<dir, meta, stat, run, dry_run, files_by_date, day, i,
                   total_renamed, result, log, prev, failures, dir0, best,
                   directory, ftype, args, extract_vars>>

\* per-file times of the tree: one day, or two
TreeTimes ==
    {<<<<0>>, <<1>>, <<2>>>>,
     <<<<0>>, <<1>>, <<TicksPerDay>>>>,
     <<<<0>>, <<TicksPerDay>>, <<TicksPerDay + 1>>>>}

TreeNames(f, parent) ==
    LET camera(suffix) == [parent |-> parent, stem |-> GenericStem(f), suffix |-> suffix]
    IN  CASE f = 1 -> {camera(".jpg")}
          [] f = 2 -> {camera(".jpg"), camera(".MOV"),
                       new_name(DayStrs[1], 1, camera(".jpg"))}
          [] OTHER -> {camera(".jpg"), camera(".txt")}

InitTree ==
    /\ \E parent \in [FileIds -> {Dirs[k] : k \in DOMAIN Dirs}] :
          dir \in {d \in [FileIds -> UNION {TreeNames(f, parent[f]) : f \in FileIds}] :
                      \A f \in FileIds : d[f] \in TreeNames(f, parent[f])}
    /\ ftype \in {t \in [FileIds -> {"file", "dir"}] : t[1] = "file" /\ t[2] = "file"}
    /\ meta \in TreeTimes
    /\ args \in [root : {Root, SubA}, dry : BOOLEAN, recursive : BOOLEAN]
                  \cup {[root |-> Missing, dry |-> FALSE, recursive |-> TRUE]}
    /\ stat = [f \in FileIds |-> <<0, 0, 0>>]
    /\ pc = "main"
    /\ run = 0
    /\ dry_run = FALSE
    /\ files_by_date = EmptyGroups
    /\ day = 1
    /\ i = 1
    /\ total_renamed = 0
    /\ result = <<0, 0>>
    /\ log = <<>>
    /\ prev = NoPrev
    /\ failures = 0
    /\ media_files = <<>>
    /\ dir0 = dir
    /\ best = None
    /\ directory = Root
    /\ dir_args = <<>>
    /\ dry_args = <<>>
    /\ rec_args = <<>>
    /\ contents = NoSrc
    /\ got = NoCall

NextTree ==
    \/ RenameMedia
    \/ Call
    \/ Group
    \/ AlreadyNamed
    \/ SkipExisting
    \/ DryRun
    \/ Rename
    \/ RenameError
    \/ Return

SpecTree == InitTree /\ [][NextTree]_vars

\* ------------------------------------------- the fallback on its own
\* get_best_fallback_date applied to the attributes of one file, every
\* triple of time stamps up to MaxStamp
Fallback ==
    /\ pc = "stat"
    /\ best' = <<get_best_fallback_date(stat[1])>>
    /\ pc' = "fallback"
    /\ UNCHANGED <<dir, meta, stat, run, dry_run, files_by_date, day, i,
                   total_renamed, result, log, prev, failures, dry_args,
                   media_files, dir0, directory, tree_vars, extract_vars>>

InitFallback ==
    /\ dir = [f \in FileIds |->
                [parent |-> Root, stem |-> GenericStem(f), suffix |-> ".png"]]
    /\ meta = [f \in FileIds |-> None]
    /\ \E c, m, a \in 0..MaxStamp : stat = [f \in FileIds |-> <<c, m, a>>]
    /\ pc = "stat"
    /\ run = 0
    /\ dry_run = FALSE
    /\ files_by_date = EmptyGroups
    /\ day = 1
    /\ i = 1
    /\ total_renamed = 0
    /\ result = <<0, 0>>
    /\ log = <<>>
    /\ prev = NoPrev
    /\ failures = 0
    /\ media_files = <<>>
    /\ dir0 = dir
    /\ best = None
    /\ dry_args = <<>>
    /\ ftype = [f \in FileIds |-> "file"]
    /\ directory = Root
    /\ args = NoArgs
    /\ dir_args = <<>>
    /\ rec_args = <<>>
    /\ contents = NoSrc
    /\ got = NoCall

NextFallback == Fallback

SpecFallback == InitFallback /\ [][NextFallback]_vars

\* ----------------------------------------- the extractors on their own
\* get_date_taken applied to one file: every extension the code names, and
\* for each extractor the things it can meet inside the file
Exif(t) == DateStr(t, ":", " ", FALSE, "")

Dash(t) == DateStr(t, "-", " ", FALSE, "")

Iso(t, frac, tz) == DateStr(t, "-", "T", frac, tz)

SeqsUpTo(S, n) == UNION {[1..k -> S] : k \in 0..n}

\* dictionaries with at most n of the keys
TagDicts(names, values, n) ==
    UNION {[D -> values] : D \in {E \in SUBSET names : Cardinality(E) <= n}}

ExifValues == {Exif(1), Exif(2), Text, NonStr}

ExifTags ==
    {<<n, v>> : n \in {"DateTimeOriginal", "DateTime", "Make"}, v \in ExifValues}

IfdSamples == {<<>>, <<<<"DateTimeOriginal", Exif(2)>>>>, <<<<"DateTime", Text>>>>}

ImageFiles ==
    {[NoSrc EXCEPT !.exif = e, !.ifd_state = st, !.ifd = d] :
        e \in SeqsUpTo(ExifTags, MaxTags), st \in {"absent", "ok", "error"},
        d \in IfdSamples}
    \cup {[NoSrc EXCEPT !.open = "error"]}

HeicFiles ==
    {[NoSrc EXCEPT !.heif = h, !.open = o, !.exif = e, !.ifd_state = st,
                   !.ifd = d] :
        h \in {"ok", "missing"}, o \in {"ok", "error"},
        e \in SeqsUpTo(ExifTags, 1), st \in {"ok", "error"}, d \in IfdSamples}

DngFiles ==
    {[NoSrc EXCEPT !.exifread = x, !.open = o, !.dng_tags = d] :
        x \in {"ok", "missing"}, o \in {"ok", "error"},
        d \in TagDicts({dng_date_tags[k] : k \in DOMAIN dng_date_tags},
                       ExifValues, MaxTags)}

VideoValues ==
    {Iso(1, FALSE, "Z"), Iso(1, TRUE, "Z"), Iso(1, FALSE, ""),
     Iso(2, FALSE, "+02:00"), Dash(2), Exif(2), Text, TextT, NonStr}

StreamValues == {Iso(1, FALSE, "Z"), Iso(2, TRUE, "Z"), Dash(1), TextT}

StreamDicts == TagDicts({"creation_time", "date"}, StreamValues, 2)

VideoFiles ==
    {[NoSrc EXCEPT !.fmt = f, !.streams = st] :
        f \in TagDicts({date_fields[k] : k \in DOMAIN date_fields},
                       VideoValues, MaxTags),
        st \in {<<>>, <<[k \in {"date"} |-> Iso(2, FALSE, "Z")]>>}}
    \cup {[NoSrc EXCEPT !.fmt = f, !.streams = st] :
        f \in {NoTags, [k \in {"date"} |-> Text]},
        st \in SeqsUpTo(StreamDicts, MaxStreams)}
    \cup {[NoSrc EXCEPT !.probe = x] :
        x \in {"timeout", "missing", "nonzero", "badjson", "scalar"}}

\* a file in which every extractor finds something else
Sample ==
    [NoSrc EXCEPT !.exif = <<<<"DateTimeOriginal", Exif(1)>>>>,
                  !.heif = "missing",
                  !.dng_tags = [k \in {"Image DateTime"} |-> Exif(2)],
                  !.fmt = [k \in {"creation_time"} |-> Iso(3, TRUE, "Z")]]

AllSuffixes ==
    media_extensions
        \cup {".JPG", ".MOV", ".Png", ".DNG", ".HEIC", ".Mp4", ".TXT", ".txt",
              ".gif", ""}

GetDateTaken ==
    /\ pc = "file"
    /\ got' = get_date_taken_dispatch(dir[1], contents)
    /\ pc' = "dated"
    /\ UNCHANGED <<dir, meta, stat, run, dry_run, files_by_date, day, i,
                   total_renamed, result, log, prev, failures, dry_args,
                   media_files, dir0, best, directory, tree_vars, contents>>

InitExtract ==
    /\ \E suffix \in AllSuffixes :
          /\ dir = [f \in FileIds |->
                      [parent |-> Root, stem |-> GenericStem(f), suffix |-> suffix]]
          /\ \/ contents = Sample
             \/ suffix \in {".jpg", ".Png"} /\ contents \in ImageFiles
             \/ suffix \in {".heic", ".HEIC"} /\ contents \in HeicFiles
             \/ suffix \in {".dng", ".DNG"} /\ contents \in DngFiles
             \/ suffix \in {".mov", ".Mp4"} /\ contents \in VideoFiles
    /\ got = NoCall
    /\ meta = [f \in FileIds |-> None]
    /\ stat = [f \in FileIds |-> <<0, 0, 0>>]
    /\ pc = "file"
    /\ run = 0
    /\ dry_run = FALSE
    /\ files_by_date = EmptyGroups
    /\ day = 1
    /\ i = 1
    /\ total_renamed = 0
    /\ result = <<0, 0>>
    /\ log = <<>>
    /\ prev = NoPrev
    /\ failures = 0
    /\ media_files = <<>>
    /\ dir0 = dir
    /\ best = None
    /\ dry_args = <<>>
    /\ ftype = [f \in FileIds |-> "file"]
    /\ directory = Root
    /\ args = NoArgs
    /\ dir_args = <<>>
    /\ rec_args = <<>>

NextExtract == GetDateTaken

SpecExtract == InitExtract /\ [][NextExtract]_vars

\* ======================================================== properties
Outcomes(l, res) == {k \in DOMAIN l : l[k].res = res}

InCall == pc \in {"found", "loop", "end"}

\* C1: no rename ever lands on a name that an entry holds at that moment,
\* and at every point of a run every content the directory held is still
\* there (only names change).
C1_NoOverwrite ==
    [][/\ \A f \in FileIds :
            dir'[f] # dir[f] => dir[f] # Gone /\ dir'[f] # Gone /\ ~exists(dir, dir'[f])
       /\ Present(dir') = FileIds]_vars

\* a rename has happened in a run that also met a taken target
C1_Witness ==
    /\ pc = "done"
    /\ Outcomes(log, "renamed") # {}
    /\ Outcomes(log, "skipped") # {}

NoTies ==
    \A f, g \in FileIds :
        f # g /\ strftime(date_taken_of(f)) = strftime(date_taken_of(g))
            => date_taken_of(f) # date_taken_of(g)

SecondOfTwo == dry_args = <<FALSE, FALSE>> /\ run = 2 /\ pc \in {"loop", "end"}

\* C2 as claimed: after a first non-dry run, a second non-dry run renames
\* nothing, whatever the directory held at the start.
C2_Idempotent ==
    (SecondOfTwo /\ failures = 0) => (total_renamed = 0 /\ dir = dir0)

\* C2 as amended: if the first run skipped no entry for a collision, no
\* rename failed and no two files of a day have the same time stamp, the
\* second run finds every file under its computed target and renames nothing.
C2_IdempotentAfterCleanRun ==
    (SecondOfTwo /\ failures = 0 /\ Outcomes(prev.log, "skipped") = {} /\ NoTies)
        => /\ total_renamed = 0
           /\ dir = dir0
           /\ \A k \in DOMAIN log : log[k].res = "same"

\* the second run is over, after a first run that renamed every file
C2_Witness ==
    /\ SecondOfTwo /\ pc = "end" /\ failures = 0 /\ NoTies
    /\ Cardinality(Outcomes(prev.log, "renamed")) = Cardinality(FileIds)
    /\ Len(log) = Cardinality(FileIds)

\* ---- C3
PosInListing(d, listing, path) ==
    CHOOSE j \in DOMAIN listing : NameOf(d[listing[j]]) = NameOf(path)

Chronological(d, listing, groups) ==
    \A key \in DOMAIN groups :
        LET l == groups[key]
        IN  /\ Len(l) = Cardinality({j \in DOMAIN listing :
                                        strftime(date_taken_of(listing[j])) = key})
            /\ \A a, b \in DOMAIN l :
                  a < b => /\ l[a][2] <= l[b][2]
                           /\ l[a][2] = l[b][2] =>
                                 PosInListing(d, listing, l[a][1])
                                    < PosInListing(d, listing, l[b][1])

\* the entries of one day handled so far are numbered 1, 2, ... in the order
\* of the day's list
DenseNumbers ==
    \A k \in DOMAIN log :
        /\ log[k].n = Cardinality({j \in 1..k : log[j].date_str = log[k].date_str})
        /\ files_by_date[log[k].date_str][log[k].n][1] = log[k].src

AllNumbered ==
    \A key \in DOMAIN files_by_date :
        Cardinality({k \in DOMAIN log : log[k].date_str = key}) = Len(files_by_date[key])

\* C3: every day's list is in ascending order of the full time stamp, files
\* with equal time stamps in the order in which they were listed, and the
\* files of a day are numbered 1..N in that order without gap or repeat,
\* photos and videos alike.
C3_Chronological ==
    /\ [][(pc = "found" /\ pc' = "loop")
            => Chronological(dir, media_files, files_by_date')]_vars
    /\ [](pc \in {"loop", "end"} => DenseNumbers)
    /\ [](pc = "end" => AllNumbered)

\* a day of three files, photos and a video, two of them at the same time
C3_Witness ==
    /\ pc = "end"
    /\ \E key \in DOMAIN files_by_date :
          LET l == files_by_date[key]
          IN  /\ Len(l) = 3
              /\ \E a, b \in DOMAIN l : a # b /\ l[a][2] = l[b][2]
              /\ \E a, b \in DOMAIN l : l[a][2] < l[b][2]
              /\ \E a, b \in DOMAIN l :
                    /\ lower(l[a][1].suffix) \in video_extensions
                    /\ lower(l[b][1].suffix) \notin video_extensions

Photos1(d) == [parent |-> Root, stem |-> d \o " - Phone Photos (1)", suffix |-> ".jpg"]

Photos2(d) == [parent |-> Root, stem |-> d \o " - Phone Photos (2)", suffix |-> ".jpg"]

Days == {DayStrs[k] : k \in DOMAIN DayStrs}

\* p holds the first photo name of day d, s is a new .jpg file of day d, and
\* no further file of the directory is of that day or named in that format
Occupied(p, s, d) ==
    /\ p # s
    /\ dir0[p] = Photos1(d)
    /\ dir0[s] \notin PreNames
    /\ dir0[s].suffix = ".jpg"
    /\ strftime(date_taken_of(s)) = d
    /\ \A g \in FileIds \ {p, s} :
          strftime(date_taken_of(g)) # d /\ dir0[g] \notin PreNames

SecondNumber(p, s, d) ==
    /\ dir[s] = Photos2(d)
    /\ dir[p] = Photos1(d)
    /\ Cardinality({k \in Outcomes(log, "renamed") : log[k].id \in {p, s}}) = 1

RunOver == pc = "end" /\ ~dry_run /\ failures = 0

HolderSortsFirst(p, s, d) ==
    /\ strftime(date_taken_of(p)) = d
    /\ files_by_date[d][1][1] = dir0[p]

C6_DryRunFrame ==
    /\ (dry_run /\ pc \in {"found", "loop", "end"}) =>
          (dir = dir0 /\ total_renamed = 0)
    /\ (pc = "done" /\ run > 0 /\ dry_run) => dir = dir0
    /\ (pc = "done" /\ run > 0 /\ dry_run
            /\ \E f \in Listed(dir0, directory, FALSE) : IsMedia(dir0, f)) =>
          /\ result[1] =
                Cardinality({f \in Listed(dir0, directory, FALSE) : IsMedia(dir0, f)})
          /\ result[1] > 0
          /\ result[2] = 0

\* a finished dry run that announced a rename
C6_Witness ==
    pc = "done" /\ run > 0 /\ dry_run /\ Outcomes(log, "dry") # {}

\* ---- C7
\* C7: a file whose name is its computed target keeps it, is not counted in
\* total_renamed and is counted in the first number returned.
C7_AlreadyNamed ==
    /\ pc \in {"loop", "end", "done"} =>
          /\ \A k \in DOMAIN log :
                NameOf(log[k].src) = NameOf(log[k].target) =>
                    /\ log[k].res = "same"
                    /\ dir[log[k].id] = log[k].src
                    /\ dir0[log[k].id] = log[k].src
          /\ total_renamed = Cardinality(Outcomes(log, "renamed"))
    /\ (pc = "done" /\ run > 0) =>
          /\ result[1] = Len(log)
          /\ result[2] = Cardinality(Outcomes(log, "renamed"))

\* a finished run that left one file alone and renamed another
C7_Witness ==
    /\ pc = "done" /\ run > 0 /\ ~dry_run
    /\ Outcomes(log, "same") # {}
    /\ Outcomes(log, "renamed") # {}

\* ---- C8
\* C8 as claimed: every file keeps its extension character for character.
C8_SameExtension ==
    \A f \in FileIds : dir[f] # Gone => dir[f].suffix = dir0[f].suffix

\* C8 as amended: a renamed file gets its extension in lower case; the
\* extension is kept up to letter case.
C8_LowerCasedExtension ==
    \A f \in FileIds :
        /\ dir[f] # Gone
        /\ dir[f] # dir0[f] => dir[f].suffix = lower(dir0[f].suffix)

C8_Witness ==
    \E f, g \in FileIds :
        /\ dir0[f].suffix = ".JPG" /\ dir[f].suffix = ".jpg"
        /\ dir0[g].suffix = ".mov" /\ dir[g] # dir0[g]

\* ---- C9
KindOf(suffix) ==
    IF lower(suffix) \in {".mov", ".mp4", ".avi", ".mkv", ".m4v", ".3gp", ".wmv"}
    THEN "Videos" ELSE "Photos"

Camera(f, suffix) == [parent |-> Root, stem |-> GenericStem(f), suffix |-> suffix]

\* img1.jpg, vid1.mov, img2.jpg taken in this order on the first day
ThreeOfOneDay ==
    /\ dir0 = [f \in FileIds |-> Camera(f, IF f = 2 THEN ".mov" ELSE ".jpg")]
    /\ \A f \in FileIds : meta[f] # None /\ strftime(meta[f][1]) = DayStrs[1]
    /\ meta[1][1] < meta[2][1] /\ meta[2][1] < meta[3][1]

\* C9: every target is <date> - Phone <Kind> (<n>)<ext>, the kind being
\* Videos for the video extensions and Photos otherwise, with one counter
\* per day: a photo, a video and a photo of one day become Photos (1),
\* Videos (2), Photos (3).
C9_TargetName ==
    /\ pc \in {"loop", "end"} =>
          \A k \in DOMAIN log :
              /\ log[k].date_str = strftime(date_taken_of(log[k].id))
              /\ log[k].n \in 1..Cardinality(FileIds)
              /\ log[k].target.stem =
                    log[k].date_str \o " - Phone " \o KindOf(log[k].src.suffix)
                        \o " (" \o ToString(log[k].n) \o ")"
    /\ (RunOver /\ ThreeOfOneDay) =>
          dir = <<[parent |-> Root, stem |-> "2023-01-15 - Phone Photos (1)",
                   suffix |-> ".jpg"],
                  [parent |-> Root, stem |-> "2023-01-15 - Phone Videos (2)",
                   suffix |-> ".mov"],
                  [parent |-> Root, stem |-> "2023-01-15 - Phone Photos (3)",
                   suffix |-> ".jpg"]>>

C9_Witness == RunOver /\ ThreeOfOneDay

\* ---- C10
SetMin(S) == CHOOSE x \in S : \A y \in S : x <= y

\* C10: the fallback is the modification time when the creation time is
\* later than it, and the earliest of the three time stamps otherwise.
C10_Fallback ==
    pc = "fallback" =>
        LET c == stat[1][1]
            m == stat[1][2]
            a == stat[1][3]
        IN  best = <<IF c > m THEN m ELSE SetMin({c, m, a})>>

\* the modification time is returned although the access time is earlier
C10_Witness ==
    /\ pc = "fallback"
    /\ stat[1][1] > stat[1][2]
    /\ stat[1][3] < stat[1][2]
    /\ best = <<stat[1][2]>>

\* ---- C12
ProbeFailures == {"timeout", "missing", "nonzero", "badjson", "scalar"}

\* C12: the four extractors return, and never raise, whatever they meet in
\* the file; an unreadable file, a missing decoder library, a probe that
\* times out, is not installed, exits non-zero or prints no JSON object
\* gives None, and so do tag values that spell no date.
C12_ExtractorsNeverRaise ==
    /\ get_image_date_taken(contents).st = "return"
    /\ get_heic_date_taken(contents).st = "return"
    /\ get_dng_date_taken(contents).st = "return"
    /\ get_video_date_taken(contents).st = "return"
    /\ contents.open = "error" =>
          /\ get_image_date_taken(contents) = ReturnNone
          /\ get_heic_date_taken(contents) = ReturnNone
          /\ get_dng_date_taken(contents) = ReturnNone
    /\ contents.heif = "missing" => get_heic_date_taken(contents) = ReturnNone
    /\ contents.exifread = "missing" => get_dng_date_taken(contents) = ReturnNone
    /\ contents.probe \in ProbeFailures => get_video_date_taken(contents) = ReturnNone
    /\ (\A k \in DOMAIN contents.exif : contents.exif[k][2] \in {Text, NonStr})
          /\ contents.ifd_state # "ok"
          => get_image_date_taken(contents) = ReturnNone
    /\ pc = "dated" => got.res.st = "return"

\* the probe of a video file timed out and the caller got None
C12_Witness ==
    /\ pc = "dated"
    /\ contents.probe = "timeout"
    /\ got = [called |-> <<"get_video_date_taken">>, res |-> ReturnNone]

\* ---- C17
ImageSpellings == {".jpg", ".JPG", ".jpeg", ".png", ".Png", ".tiff", ".tif", ".bmp"}

VideoSpellings == {".mov", ".MOV", ".mp4", ".Mp4", ".avi", ".mkv", ".m4v", ".3gp", ".wmv"}

\* C17: get_date_taken sends a file to exactly one extractor, chosen by the
\* lower-cased extension (image, DNG, HEIC or video), and returns what that
\* extractor returns; for any other extension it calls none and returns None.
C17_Dispatch ==
    pc = "dated" =>
        LET suffix == dir[1].suffix
        IN  got =
              IF suffix \in ImageSpellings
              THEN [called |-> <<"get_image_date_taken">>,
                    res |-> get_image_date_taken(contents)]
              ELSE IF suffix \in {".dng", ".DNG"}
              THEN [called |-> <<"get_dng_date_taken">>,
                    res |-> get_dng_date_taken(contents)]
              ELSE IF suffix \in {".heic", ".HEIC", ".heif"}
              THEN [called |-> <<"get_heic_date_taken">>,
                    res |-> get_heic_date_taken(contents)]
              ELSE IF suffix \in VideoSpellings
              THEN [called |-> <<"get_video_date_taken">>,
                    res |-> get_video_date_taken(contents)]
              ELSE [called |-> <<>>, res |-> ReturnNone]

\* a .DNG file went to the DNG extractor, which found a date the image
\* extractor would not have found
C17_Witness ==
    /\ pc = "dated"
    /\ dir[1].suffix = ".DNG"
    /\ got.called = <<"get_dng_date_taken">>
    /\ got.res.val # None
    /\ got.res # get_image_date_taken(contents)

\* ---- C11
AllowSpellings ==
    {".jpg", ".jpeg", ".png", ".tiff", ".tif", ".bmp", ".heic", ".heif", ".dng",
     ".mov", ".mp4", ".avi", ".mkv", ".m4v", ".3gp", ".wmv",
     ".JPG", ".MOV", ".Png", ".DNG", ".HEIC", ".Mp4"}

\* the regular files with an allowed extension directly in a directory
MediaIn(d, top) ==
    {f \in FileIds :
        /\ d[f] # Gone /\ ftype[f] = "file" /\ d[f].parent = top
        /\ d[f].suffix \in AllowSpellings}

Positions ==
    UNION {{<<d, k>> : k \in 1..Len(files_by_date[d])} : d \in DOMAIN files_by_date}

\* C11: every discovered media file is grouped, under the day of the
\* extractor's time stamp when the extractor gave one and of the file system
\* fallback when it gave None; a file without a metadata date does not make
\* the call raise.
C11_ResolutionTotal ==
    /\ pc \in {"loop", "end"} =>
          /\ \A f \in MediaIn(dir0, directory) :
                LET t == IF meta[f] # None THEN meta[f][1]
                         ELSE get_best_fallback_date(stat[f])
                IN  /\ strftime(t) \in DOMAIN files_by_date
                    /\ \E k \in DOMAIN files_by_date[strftime(t)] :
                          files_by_date[strftime(t)][k] = <<dir0[f], t>>
          /\ Cardinality(Positions) = Cardinality(MediaIn(dir0, directory))
    /\ is_dir(directory) => pc # "raised"

\* a file without a metadata date, created after it was modified, has been
\* grouped next to a file with one
C11_Witness ==
    /\ pc = "loop"
    /\ \E f, g \in FileIds :
          /\ meta[f] = None /\ stat[f][1] > stat[f][2]
          /\ meta[g] # None /\ meta[g][1] # stat[f][2]

\* ---- C13
\* C13: in a run that is not a dry run, a file whose rename failed keeps its
\* name and is not counted, the files renamed before it keep their new
\* names, and the entries after it are still handled.
C13_RenameFailure ==
    /\ (pc \in {"loop", "end", "done"} /\ ~dry_run) =>
          /\ \A k \in DOMAIN log :
                /\ log[k].id \in FileIds
                /\ log[k].res = "error" => dir[log[k].id] = log[k].src
                /\ log[k].res = "renamed" => dir[log[k].id] = log[k].target
          /\ total_renamed = Cardinality(Outcomes(log, "renamed"))
    /\ pc = "end" => Len(log) = Cardinality(MediaIn(dir0, directory))

\* a failed rename between two successful ones
C13_Witness ==
    /\ pc = "end"
    /\ Len(log) = 3
    /\ log[1].res = "renamed" /\ log[2].res = "error" /\ log[3].res = "renamed"

\* ---- C14
\* C14: called on a path that does not exist, or on a directory none of
\* whose direct children is a media file, rename_media_in_directory returns
\* (0, 0) without raising and leaves every entry as it was.
C14_NothingToDo ==
    (run = 1 /\ (directory = Missing
                    \/ (is_dir(directory) /\ MediaIn(dir0, directory) = {})))
        => /\ pc = "done"
           /\ result = <<0, 0>>
           /\ dir = dir0
           /\ log = <<>>

\* the call on the missing directory has returned
C14_Witness == run = 1 /\ pc = "done" /\ directory = Missing

\* ---- C15
Range(l) == {l[k] : k \in DOMAIN l}

\* C15: find_media_files returns, each once, exactly the regular files whose
\* extension is in the allow-list whatever its letter case: the direct
\* children of the directory without recursive, the files of the whole
\* subtree with it, and the empty list when there is none.
C15_Discovery ==
    /\ (pc = "idle" /\ run = 0 /\ args.recursive /\ is_dir(args.root)) =>
          /\ Range(media_files) =
                {f \in FileIds :
                    /\ ftype[f] = "file" /\ dir[f].suffix \in AllowSpellings
                    /\ Under(dir[f].parent, args.root)}
          /\ Len(media_files) = Cardinality(Range(media_files))
    /\ pc = "found" =>
          /\ Range(media_files) = MediaIn(dir, directory)
          /\ Len(media_files) = Cardinality(Range(media_files))
    /\ (pc = "done" /\ run >= 1 /\ log = <<>> /\ is_dir(directory)) =>
          MediaIn(dir, directory) = {}

\* the recursive listing of /r/a holds the .MOV file of /r/a/b and leaves
\* out a media file of /r
C15_Witness ==
    /\ pc = "idle" /\ run = 0 /\ args.recursive /\ args.root = SubA
    /\ \E k \in DOMAIN media_files :
          /\ dir[media_files[k]].suffix = ".MOV"
          /\ dir[media_files[k]].parent = SubB
    /\ MediaIn(dir, Root) # {}

\* ---- C16
\* C16: rename_media with recursive=True makes one call of
\* rename_media_in_directory for each directory of the subtree that holds a
\* media file; every call numbers the files of its own directory only, from
\* 1 for each day, and a file never leaves its parent directory.
C16_PerDirectoryBatches ==
    /\ []((pc # "main" /\ args.recursive /\ is_dir(args.root)) =>
            dir_args = SelectSeq(Dirs, LAMBDA d :
                           Under(d, args.root) /\ MediaIn(dir, d) # {}))
    /\ []((pc \in {"found", "loop", "end", "done"} /\ run >= 1) =>
            /\ directory = dir_args[run]
            /\ \A k \in DOMAIN log :
                  /\ log[k].src.parent = directory
                  /\ log[k].target.parent = directory
                  /\ log[k].n =
                        Cardinality({j \in 1..k : log[j].date_str = log[k].date_str})
                  /\ log[k].n <=
                        Cardinality({f \in MediaIn(dir0, directory) :
                            strftime(date_taken_of(f)) = log[k].date_str}))
    /\ [][\A f \in FileIds : dir'[f].parent = dir[f].parent]_vars

\* two directories of the tree each have their own Photos (1) of the day
C16_Witness ==
    /\ pc = "done" /\ args.recursive /\ run = 2
    /\ Outcomes(prev.log, "renamed") # {}
    /\ Outcomes(log, "renamed") # {}
    /\ \E f, g \in FileIds :
          /\ dir[f].parent # dir[g].parent
          /\ dir[f].stem = "2023-01-15 - Phone Photos (1)"
          /\ dir[g].stem = "2023-01-15 - Phone Photos (1)"

\* ---- C18
\* C18: the call returns (total_files, total_renamed): the number of media
\* files among the directory's direct children whatever became of them, and
\* the number of renames that succeeded, which is the number of files whose
\* name changed and lies between 0 and total_files.
C18_Counts ==
    (pc = "done" /\ run >= 1) =>
        /\ result[1] = Cardinality(MediaIn(dir0, directory))
        /\ result[2] = Cardinality(Outcomes(log, "renamed"))
        /\ result[2] = Cardinality({f \in FileIds : dir[f] # dir0[f]})
        /\ 0 <= result[2] /\ result[2] <= result[1]

\* a call returned after a rename, a skip and a failed rename
C18_Witness ==
    /\ pc = "done" /\ run >= 1
    /\ result = <<3, 1>>
    /\ Outcomes(log, "renamed") # {}
    /\ Outcomes(log, "skipped") # {}
    /\ Outcomes(log, "error") # {}

\* ---- C19
FileName(p) == <<p.stem, p.suffix>>

PlanTarget(q) == new_name(q[1], q[2], files_by_date[q[1]][q[2]][1])

\* C19: no two entries of the plan of one run have the same target file
\* name.
C19_DistinctTargets ==
    pc \in {"loop", "end"} =>
        /\ \A q, r \in Positions :
              q # r => FileName(PlanTarget(q)) # FileName(PlanTarget(r))
        /\ \A j, k \in DOMAIN log :
              j # k => FileName(log[j].target) # FileName(log[k].target)

\* the plan holds photos of two days, the first of each with the number 1
C19_Witness ==
    /\ pc = "loop"
    /\ Cardinality(DOMAIN files_by_date) = 2
    /\ Cardinality(Positions) = 3
    /\ \A f \in FileIds : dir0[f].suffix = ".jpg"

\* ---- C20
\* C20: the entries are handled in plan order: the days in ascending order
\* of their date string, and within a day in ascending sequence number.
C20_ExecutionOrder ==
    \A j, k \in DOMAIN log :
        j < k =>
            \/ DayIndex(log[j].date_str) < DayIndex(log[k].date_str)
            \/ /\ log[j].date_str = log[k].date_str
               /\ log[j].n < log[k].n

\* a run handled two entries of the first day, then one of the second
C20_Witness ==
    /\ pc = "end"
    /\ Len(log) = 3
    /\ log[1].date_str = DayStrs[1] /\ log[2].date_str = DayStrs[1]
    /\ log[3].date_str = DayStrs[2]

\* ---- C21
HandledIds(l) == {l[k].id : k \in DOMAIN l}

\* C21: the existence check of an entry's target is made on the directory as
\* the earlier entries of the run left it: the entry is skipped exactly when
\* its target is held at that moment; a target that was held when the run
\* started and has been vacated since does not block the entry, and a target
\* held by a file the run has not handled yet does.
C21_CollisionOnCurrentState ==
    [][(pc = "loop" /\ NameOf(cur_file_path) # NameOf(cur_new_name)) =>
          /\ (log'[Len(log')].res = "skipped") <=> exists(dir, cur_new_name)
          /\ (exists(dir0, cur_new_name) /\ ~exists(dir, cur_new_name))
                => log'[Len(log')].res \in {"dry", "renamed", "error"}
          /\ (\E f \in FileIds \ HandledIds(log) :
                  dir[f] # Gone /\ NameOf(dir[f]) = NameOf(cur_new_name))
                => (log'[Len(log')].res = "skipped" /\ dir' = dir)]_vars

\* an entry was renamed to a name that an earlier rename of the run vacated
C21_Witness ==
    /\ pc = "end"
    /\ \E k \in Outcomes(log, "renamed") :
          /\ exists(dir0, log[k].target)
          /\ \E j \in Outcomes(log, "renamed") :
                j < k /\ NameOf(log[j].src) = NameOf(log[k].target)

\* ---- C22
\* the string spells a date as YYYY:MM:DD HH:MM:SS
IsExifDate(v) ==
    v.kind = "date" /\ v.datesep = ":" /\ v.sep = " " /\ ~v.frac /\ v.tz = ""

Hits(tags) ==
    {k \in DOMAIN tags :
        /\ tags[k][1] \in {"DateTime", "DateTimeOriginal", "DateTimeDigitized"}
        /\ IsExifDate(tags[k][2])}

FirstHit(tags) ==
    LET k == CHOOSE a \in Hits(tags) : \A b \in Hits(tags) : a <= b
    IN  Ret(<<tags[k][2].t>>, "")

ExpectedImage(s) ==
    IF Hits(s.exif) # {} THEN FirstHit(s.exif)
    ELSE IF s.ifd_state = "ok" /\ Hits(s.ifd) # {} THEN FirstHit(s.ifd)
    ELSE ReturnNone

\* C22: on a file it can open, get_image_date_taken returns the time spelled
\* by the first entry, in the iteration order of the primary tag directory,
\* that is named DateTime, DateTimeOriginal or DateTimeDigitized and whose
\* value has the form YYYY:MM:DD HH:MM:SS; date tags with another value are
\* passed over; the EXIF sub-directory is searched in the same way only when
\* the primary directory gave nothing, and the result is None when neither
\* gives a time.
C22_ImageExifSearch ==
    /\ contents.open = "ok" =>
          get_image_date_taken(contents) = ExpectedImage(contents)
    /\ (pc = "dated" /\ got.called = <<"get_image_date_taken">>
            /\ contents.open = "ok") => got.res = ExpectedImage(contents)

\* a date tag that spells no date was passed over, the date tag after it
\* gave the result, and the sub-directory, which holds another date, was
\* not searched
C22_Witness ==
    /\ pc = "dated"
    /\ got.called = <<"get_image_date_taken">>
    /\ Len(contents.exif) = 2
    /\ contents.exif[1] = <<"DateTimeOriginal", Text>>
    /\ contents.exif[2] = <<"DateTime", Exif(1)>>
    /\ contents.ifd_state = "ok"
    /\ contents.ifd = <<<<"DateTimeOriginal", Exif(2)>>>>
    /\ got.res = Ret(<<1>>, "")

\* ---- C23
DngPriority == <<"EXIF DateTimeOriginal", "EXIF DateTimeDigitized", "Image DateTime">>

DngPresent(tags) == {k \in DOMAIN DngPriority : DngPriority[k] \in DOMAIN tags}

DngUsable(tags) == {k \in DngPresent(tags) : IsExifDate(tags[DngPriority[k]])}

DngReadable(s) == s.exifread = "ok" /\ s.open = "ok"

\* C23 as claimed: of DateTimeOriginal, DateTimeDigitized and DateTime, in
\* this order, the first tag that is present determines the result of
\* get_dng_date_taken: the time it spells, or None when it spells none.
C23_FirstPresentTag ==
    (pc = "dated" /\ got.called = <<"get_dng_date_taken">> /\ DngReadable(contents)) =>
        got.res =
            IF DngPresent(contents.dng_tags) = {} THEN ReturnNone
            ELSE LET k == SetMin(DngPresent(contents.dng_tags))
                     v == contents.dng_tags[DngPriority[k]]
                 IN  IF IsExifDate(v) THEN Ret(<<v.t>>, "") ELSE ReturnNone

\* C23 as amended: the first of the three tags, in this order, that is
\* present with a value of the form YYYY:MM:DD HH:MM:SS determines the
\* result; a present tag with another value is passed over, and the result
\* is None when no tag is left.
C23_FirstParsableTag ==
    LET expected ==
            IF DngUsable(contents.dng_tags) = {} THEN ReturnNone
            ELSE LET k == SetMin(DngUsable(contents.dng_tags))
                 IN  Ret(<<contents.dng_tags[DngPriority[k]].t>>, "")
    IN  /\ DngReadable(contents) => get_dng_date_taken(contents) = expected
        /\ (pc = "dated" /\ got.called = <<"get_dng_date_taken">>
                /\ DngReadable(contents)) => got.res = expected

\* DateTimeOriginal spells no date and DateTime gave the result
C23_Witness ==
    /\ pc = "dated"
    /\ got.called = <<"get_dng_date_taken">>
    /\ DOMAIN contents.dng_tags = {"EXIF DateTimeOriginal", "Image DateTime"}
    /\ contents.dng_tags["EXIF DateTimeOriginal"] = Text
    /\ contents.dng_tags["Image DateTime"] = Exif(2)
    /\ got.res = Ret(<<2>>, "")

\* ---- C24
VideoPriority == <<"creation_time", "date", "creation_date",
                   "com.apple.quicktime.creationdate">>

StreamPriority == <<"creation_time", "date">>

\* the first value that gives a time: the container-level tags in the order
\* of VideoPriority, then the streams in their order, each stream's tags in
\* the order of StreamPriority; CY and SY say what a value gives at the two
\* levels
FirstOf(s, CY(_), SY(_)) ==
    LET c == {k \in DOMAIN VideoPriority :
                 /\ VideoPriority[k] \in DOMAIN s.fmt
                 /\ CY(s.fmt[VideoPriority[k]]) # ReturnNone}
        slots == {q \in (DOMAIN s.streams) \X (DOMAIN StreamPriority) :
                     /\ StreamPriority[q[2]] \in DOMAIN s.streams[q[1]]
                     /\ SY(s.streams[q[1]][StreamPriority[q[2]]]) # ReturnNone}
    IN  IF c # {} THEN CY(s.fmt[VideoPriority[SetMin(c)]])
        ELSE IF slots # {}
        THEN LET q == CHOOSE a \in slots : \A b \in slots :
                          a[1] < b[1] \/ (a[1] = b[1] /\ a[2] <= b[2])
             IN  SY(s.streams[q[1]][StreamPriority[q[2]]])
        ELSE ReturnNone

\* C24: get_video_date_taken returns what the first tag gives that gives a
\* time, the container-level tags creation_time, date, creation_date,
\* com.apple.quicktime.creationdate being consulted in this order and the
\* stream-level tags creation_time and date, stream by stream, only when no
\* container-level tag gave a time.
C24_VideoSearchOrder ==
    /\ contents.probe = "ok" =>
          get_video_date_taken(contents)
              = FirstOf(contents, parse_format_tag, parse_stream_tag)
    /\ (pc = "dated" /\ got.called = <<"get_video_date_taken">>
            /\ contents.probe = "ok") =>
          got.res = FirstOf(contents, parse_format_tag, parse_stream_tag)

\* creation_time spells no date, the container-level date tag gave the
\* result, and the stream's tag, which spells another time, was not used
C24_Witness ==
    /\ pc = "dated"
    /\ got.called = <<"get_video_date_taken">>
    /\ DOMAIN contents.fmt = {"creation_time", "date"}
    /\ contents.fmt["creation_time"] = TextT
    /\ contents.fmt["date"] = Iso(1, FALSE, "Z")
    /\ contents.streams = <<[k \in {"date"} |-> Iso(2, FALSE, "Z")]>>
    /\ got.res = Ret(<<1>>, "")

\* ---- C25
\* ISO-8601 with or without a fraction, with or without a trailing Z
IsIso(v) == v.kind = "date" /\ v.datesep = "-" /\ v.sep = "T" /\ v.tz \in {"", "Z"}

\* YYYY-MM-DD HH:MM:SS or YYYY:MM:DD HH:MM:SS
IsLiteral(v) ==
    /\ v.kind = "date" /\ v.sep = " " /\ v.datesep \in {"-", ":"}
    /\ ~v.frac /\ v.tz = ""

ClaimedParse(v) ==
    IF IsIso(v) \/ IsLiteral(v) THEN Ret(<<v.t>>, "") ELSE ReturnNone

HasOffset(v) == v.kind = "date" /\ v.tz \notin {"", "Z"}

NoOffsets(s) ==
    /\ \A k \in DOMAIN s.fmt : ~HasOffset(s.fmt[k])
    /\ \A n \in DOMAIN s.streams : \A k \in DOMAIN s.streams[n] :
          ~HasOffset(s.streams[n][k])

\* C25: every value get_video_date_taken consults, at the container level
\* and at the stream level alike, gives the time it spells when it is an
\* ISO-8601 string (with or without fraction and trailing Z) or has one of
\* the forms YYYY-MM-DD HH:MM:SS and YYYY:MM:DD HH:MM:SS, and counts as
\* absent otherwise (values with another UTC offset left aside).
C25_VideoEncodings ==
    (pc = "dated" /\ got.called = <<"get_video_date_taken">>
        /\ contents.probe = "ok" /\ NoOffsets(contents)) =>
            got.res = FirstOf(contents, ClaimedParse, ClaimedParse)

\* ---- C26
\* when the call started, no entry of the directory had a name that is a
\* target of the plan
CleanStart == \A q \in Positions : ~exists(dir0, PlanTarget(q))

NoRenameFailed == Outcomes(log, "error") = {}

\* C26: in a run that is not a dry run, started on a directory in which no
\* entry bears the name of a target of the run, and in which no rename
\* fails, no entry is skipped; after the run every media file bears its
\* computed target, and the two numbers returned are equal.
C26_CompleteRename ==
    /\ []((pc \in {"loop", "end", "done"} /\ run >= 1 /\ ~dry_run /\ CleanStart
              /\ NoRenameFailed) =>
            /\ Outcomes(log, "skipped") = {}
            /\ Outcomes(log, "same") = {}
            /\ total_renamed = Len(log))
    /\ []((pc \in {"end", "done"} /\ run >= 1 /\ ~dry_run /\ CleanStart
              /\ NoRenameFailed) =>
            /\ \A q \in Positions :
                  dir[IdAt(dir0, files_by_date[q[1]][q[2]][1])] = PlanTarget(q)
            /\ \A f \in MediaIn(dir0, directory) :
                  \E q \in Positions : dir[f] = PlanTarget(q)
            /\ total_renamed = Cardinality(MediaIn(dir0, directory)))
    /\ []((pc = "done" /\ run >= 1 /\ ~dry_run /\ CleanStart /\ NoRenameFailed) =>
            /\ result[2] = result[1]
            /\ result[1] = Cardinality(MediaIn(dir0, directory)))

\* three camera files of two days, photos and a video, all renamed
C26_Witness ==
    /\ pc = "done" /\ run = 1 /\ ~dry_run /\ CleanStart /\ NoRenameFailed
    /\ result = <<3, 3>>
    /\ Cardinality(DOMAIN files_by_date) = 2
    /\ \E f, g \in FileIds :
          /\ lower(dir0[f].suffix) \in video_extensions
          /\ lower(dir0[g].suffix) \notin video_extensions
    /\ \A f \in FileIds : dir[f] # dir0[f]

\* ---- C27
\* the entries of a plan in the order in which the loop takes them
RECURSIVE PlanEntries(_, _)
PlanEntries(g, ks) ==
    IF ks = <<>> THEN <<>>
    ELSE [n \in 1..Len(g[Head(ks)]) |->
              [src |-> g[Head(ks)][n][1],
               target |-> new_name(Head(ks), n, g[Head(ks)][n][1])]]
         \o PlanEntries(g, Tail(ks))

PlanOf(d, listing) ==
    LET g == sort_groups(group(d, listing, EmptyGroups))
    IN  PlanEntries(g, sorted_keys(DOMAIN g))

\* a non-dry run of the loop over the entries from position k on, the
\* renames of the positions in errs failing: the directory it leaves and
\* the number of renames it counts
RECURSIVE Replay(_, _, _, _)
Replay(entries, k, d, errs) ==
    IF k > Len(entries) THEN [dir |-> d, renamed |-> 0]
    ELSE LET e == entries[k]
         IN  IF \/ same_name(e.src, e.target)
                \/ target_taken(d, e.target)
                \/ k \in errs
             THEN Replay(entries, k + 1, d, errs)
             ELSE LET r == Replay(entries, k + 1, rename(d, e.src, e.target), errs)
                  IN  [dir |-> r.dir, renamed |-> r.renamed + 1]

\* C27: when no two files of a day have the same time stamp, a non-dry run
\* ends with the names and the counts that a run on any other listing order
\* of the same directory, with the same time stamps and the same renames
\* failing, ends with.
C27_DiscoveryOrderIndependence ==
    []((pc = "done" /\ run >= 1 /\ ~dry_run /\ is_dir(directory) /\ NoTies) =>
          \A other \in find_media_files(dir0, directory, FALSE) :
              LET r == Replay(PlanOf(dir0, other), 1, dir0, Outcomes(log, "error"))
              IN  /\ dir = r.dir
                  /\ result = <<Len(other), r.renamed>>)

\* a finished run over three files of one day with three time stamps, one
\* of them skipped
C27_Witness ==
    /\ pc = "done" /\ run = 1 /\ ~dry_run /\ NoTies
    /\ result[1] = 3
    /\ Cardinality(DOMAIN files_by_date) = 1
    /\ Outcomes(log, "renamed") # {}
    /\ Outcomes(log, "skipped") # {}

\* ---- C28
\* the target computed for the file in this run
OwnTarget(k) == new_name(strftime(date_taken_of(log[k].id)), log[k].n, dir0[log[k].id])

NotForTheCall(f) ==
    \/ ftype[f] # "file"
    \/ dir0[f].suffix \notin AllowSpellings
    \/ dir0[f].parent # directory

====
